---------------------------- MODULE Spec2Model ----------------------------
(***************************************************************************)
(* A model of wsmol/resnet.py: the WSOL heads' forward passes (CAM         *)
(* extraction), the checkpoint key remaps and the model factories.         *)
(*                                                                         *)
(* Tensors are row-major (contiguous) arrays, as torch stores the results  *)
(* of the operations used here: a tensor is a shape and a flat sequence of *)
(* values, so that view() is a re-reading of the same flat data under a    *)
(* new shape.  Values are exact rationals <<numerator, denominator>> in    *)
(* lowest terms; <<0, 0>> is NaN (0/0).  Floating-point rounding is not    *)
(* modelled.                                                               *)
(***************************************************************************)
EXTENDS Integers, Sequences, FiniteSets, TLC

VARIABLES
    pc,          \* where the client is: idle, or in a call
    net,         \* forward: the head called and its parameters
    args,        \* forward: the arguments
    ret,         \* forward: the result
    ckpt,        \* key remap: the state dict as it was handed in
    state_dict,  \* key remap: the state dict being renamed in place
    to_visit,    \* align_layer: the keys still to visit, in visiting order
    factory,     \* factory: the arguments of the call
    built        \* factory: what the call did and what it returned or raised

vars == <<pc, net, args, ret, ckpt, state_dict, to_visit, factory, built>>

fwdVars == <<net, args, ret>>

remapVars == <<ckpt, state_dict, to_visit>>

facVars == <<factory, built>>

(***************************************************************************)
(* Bounds of the model.                                                    *)
(***************************************************************************)
MaxBatch == 2
NumClasses == 2
NumChannels == 2
FeatH == 1
FeatW == 2
MaxSeed == 2
MaxBlocks == 11

(***************************************************************************)
(* Exact rational arithmetic.                                              *)
(***************************************************************************)
RECURSIVE GCD(_, _)
GCD(a, b) == IF b = 0 THEN a ELSE GCD(b, a % b)

Abs(n) == IF n < 0 THEN -n ELSE n

NaN == <<0, 0>>

IsNaN(a) == a[2] = 0

Rat(n, d) ==
    IF d = 0 THEN NaN
    ELSE LET g == GCD(Abs(n), Abs(d))
             s == IF d < 0 THEN -1 ELSE 1
         IN  <<s * (n \div g), s * (d \div g)>>

RInt(n) == <<n, 1>>

RAdd(a, b) ==
    IF IsNaN(a) \/ IsNaN(b) THEN NaN
    ELSE Rat(a[1] * b[2] + b[1] * a[2], a[2] * b[2])

RSub(a, b) ==
    IF IsNaN(a) \/ IsNaN(b) THEN NaN
    ELSE Rat(a[1] * b[2] - b[1] * a[2], a[2] * b[2])

RMul(a, b) ==
    IF IsNaN(a) \/ IsNaN(b) THEN NaN
    ELSE Rat(a[1] * b[1], a[2] * b[2])

RDiv(a, b) ==
    IF IsNaN(a) \/ IsNaN(b) THEN NaN
    ELSE Rat(a[1] * b[2], a[2] * b[1])

RLess(a, b) == a[1] * b[2] < b[1] * a[2]

\* torch.max / torch.min of two values: NaN propagates.
RMax(a, b) == IF IsNaN(a) \/ IsNaN(b) THEN NaN ELSE IF RLess(a, b) THEN b ELSE a

RMin(a, b) == IF IsNaN(a) \/ IsNaN(b) THEN NaN ELSE IF RLess(b, a) THEN b ELSE a

(***************************************************************************)
(* Tensors: shapes of rank <= 5, flat row-major data.                      *)
(***************************************************************************)
\* (data \o <<>> is data itself, held as an explicit sequence.)
Tensor(shape, data) == [shape |-> shape, data |-> data \o <<>>]

NoTensor == Tensor(<<>>, <<>>)

\* A shape read as a rank-5 shape, leading dimensions 1 (broadcasting aligns
\* shapes at their last dimension).
Pad5(s) == [d \in 1..5 |-> IF d <= 5 - Len(s) THEN 1 ELSE s[d - (5 - Len(s))]]

Numel(s) == LET p == Pad5(s) IN p[1] * p[2] * p[3] * p[4] * p[5]

Strides5(p) == <<p[2] * p[3] * p[4] * p[5], p[3] * p[4] * p[5], p[4] * p[5], p[5], 1>>

\* The flat offset, in a tensor of padded shape p (strides st), of the element
\* that broadcasting pairs with flat offset o of a tensor of padded shape q
\* (strides sq).
BroadcastOffset(o, q, sq, p, st) ==
    LET ix(d) == IF p[d] = 1 THEN 0 ELSE ((o \div sq[d]) % q[d]) * st[d]
    IN  ix(1) + ix(2) + ix(3) + ix(4) + ix(5)

BroadcastOk(s1, s2) ==
    LET p == Pad5(s1)
        q == Pad5(s2)
    IN  \A d \in 1..5 : p[d] = q[d] \/ p[d] = 1 \/ q[d] = 1

BroadcastShape(s1, s2) ==
    LET p == Pad5(s1)
        q == Pad5(s2)
        r == IF Len(s1) > Len(s2) THEN Len(s1) ELSE Len(s2)
    IN  [d \in 1..r |-> IF p[d + 5 - r] = 1 THEN q[d + 5 - r] ELSE p[d + 5 - r]]

\* a * b with broadcasting.
TMul(a, b) ==
    LET s  == BroadcastShape(a.shape, b.shape)
        q  == Pad5(s)
        sq == Strides5(q)
        pa == Pad5(a.shape)
        sa == Strides5(pa)
        pb == Pad5(b.shape)
        sb == Strides5(pb)
    IN  Tensor(s, [i \in 1..Numel(s) |->
                    RMul(a.data[BroadcastOffset(i - 1, q, sq, pa, sa) + 1],
                         b.data[BroadcastOffset(i - 1, q, sq, pb, sb) + 1])])

\* torch.max(a, b) of two tensors of the same shape.
TMax(a, b) == Tensor(a.shape, [i \in 1..Len(a.data) |-> RMax(a.data[i], b.data[i])])

\* t.view(shape): the same flat data under another shape.
ViewOk(t, shape) == Numel(shape) = Numel(t.shape)

View(t, shape) == Tensor(shape, t.data)

RECURSIVE RSum(_, _)
RSum(f, n) == IF n = 0 THEN RInt(0) ELSE RAdd(RSum(f, n - 1), f[n])

RECURSIVE Prod(_, _, _)
Prod(s, lo, hi) == IF lo > hi THEN 1 ELSE s[lo] * Prod(s, lo + 1, hi)

\* t.mean(dim), keepdim=False; dim counts from 0.
TMean(t, dim) ==
    LET s     == t.shape
        size  == s[dim + 1]
        inner == Prod(s, dim + 2, Len(s))
        outS  == [d \in 1..(Len(s) - 1) |-> IF d <= dim THEN s[d] ELSE s[d + 1]]
    IN  Tensor(outS, [i \in 1..Numel(outS) |->
                 LET o    == i - 1
                     base == (o \div inner) * size * inner + (o % inner)
                 IN  RDiv(RSum([j \in 1..size |-> t.data[base + (j - 1) * inner + 1]],
                               size),
                          RInt(size))])

\* weight[labels] for a 1-D index tensor: the rows named, in order.
IndexRowsOk(w, idx) == \A i \in 1..Len(idx) : idx[i] >= 0 /\ idx[i] < w.shape[1]

IndexRows(w, idx) ==
    LET cols == w.shape[2]
    IN  Tensor(<<Len(idx), cols>>,
               [i \in 1..(Len(idx) * cols) |->
                    w.data[idx[((i - 1) \div cols) + 1] * cols + ((i - 1) % cols) + 1]])

\* weight[None]: a new leading dimension of size 1.
Unsqueeze0(t) == Tensor(<<1>> \o t.shape, t.data)

\* a @ w for a of shape (b, r, m) and w of shape (m, k).
MatMulOk(a, w) == Len(a.shape) = 3 /\ Len(w.shape) = 2 /\ a.shape[3] = w.shape[1]

MatMul(a, w) ==
    LET r == a.shape[2]
        m == a.shape[3]
        k == w.shape[2]
        s == <<a.shape[1], r, k>>
    IN  Tensor(s, [i \in 1..Numel(s) |->
                 LET row == (i - 1) \div k
                     col == (i - 1) % k
                 IN  RSum([j \in 1..m |-> RMul(a.data[row * m + j],
                                               w.data[(j - 1) * k + col + 1])], m)])

\* labels.repeat_interleave(n, dim=0) of a 2-D tensor: each row n times in a row.
RepeatInterleave0(t, n) ==
    LET cols == t.shape[2]
    IN  Tensor(<<t.shape[1] * n, cols>>,
               [i \in 1..(t.shape[1] * n * cols) |->
                    t.data[(((i - 1) \div cols) \div n) * cols + ((i - 1) % cols) + 1]])

\* torch.eye(c).repeat((b, 1)): b copies of the identity, one under the other.
EyeRepeat(c, b) ==
    Tensor(<<b * c, c>>,
           [i \in 1..(b * c * c) |->
                IF (((i - 1) \div c) % c) = ((i - 1) % c) THEN RInt(1) ELSE RInt(0)])

\* t[range(n), idx] for t of shape (B, C, H, W): index arrays broadcast to a
\* common length N, element k of the result is t[i0[k], i1[k]], shape (N, H, W).
PairIndexOk(t, n, idx) ==
    /\ Len(idx) = n \/ Len(idx) = 1 \/ n = 1
    /\ n <= t.shape[1]
    /\ \A i \in 1..Len(idx) : idx[i] >= 0 /\ idx[i] < t.shape[2]

PairIndex(t, n, idx) ==
    LET len == IF n = 1 THEN Len(idx) ELSE n
        hw  == t.shape[3] * t.shape[4]
        c   == t.shape[2]
        i0(k) == IF n = 1 THEN 0 ELSE k
        i1(k) == IF Len(idx) = 1 THEN idx[1] ELSE idx[k + 1]
    IN  Tensor(<<len, t.shape[3], t.shape[4]>>,
               [i \in 1..(len * hw) |->
                    LET k == (i - 1) \div hw
                    IN  t.data[(i0(k) * c + i1(k)) * hw + ((i - 1) % hw) + 1]])

(***************************************************************************)
(* Inputs.  The convolutional backbone is the tensor library's work; the   *)
(* model draws its output (the final feature map) and the head's           *)
(* parameters from small families indexed by a seed.  Seed 0 is the        *)
(* all-ones tensor.                                                        *)
(***************************************************************************)
\* Values 0..4: the final feature map follows a ReLU, so it is non-negative.
FillNonNeg(seed, shape) ==
    Tensor(shape, [i \in 1..Numel(shape) |->
                     IF seed = 0 THEN RInt(1)
                     ELSE RInt((seed * i * i + 2 * i + seed) % 5)])

\* Values -3..3: weights and convolution outputs of either sign.
FillSigned(seed, shape) ==
    Tensor(shape, [i \in 1..Numel(shape) |->
                     IF seed = 0 THEN RInt(1)
                     ELSE RInt(((seed * i * i + 3 * i + 2 * seed) % 7) - 3)])

Seeds == 0..MaxSeed

Batches == 1..MaxBatch

\* labels=None, and a supplied label tensor.
NoLabels == [given |-> FALSE, val |-> <<>>]

Labels(v) == [given |-> TRUE, val |-> v]

RECURSIVE SeqsUpTo(_, _)
SeqsUpTo(S, n) ==
    IF n = 0 THEN {<<>>}
    ELSE LET prev == SeqsUpTo(S, n - 1)
         IN  prev \cup {Append(s, e) : s \in {t \in prev : Len(t) = n - 1}, e \in S}

\* Class-index vectors of length 1..MaxBatch over 0..NumClasses: lengths that
\* differ from the batch size and the out-of-range index NumClasses included.
ClassIndexVectors == SeqsUpTo(0..NumClasses, MaxBatch) \ {<<>>}

\* The multi-hot label matrix of shape (b, NumClasses) with the entries f.
MultiHot(b, f) == Tensor(<<b, NumClasses>>, [i \in 1..(b * NumClasses) |-> RInt(f[i])])

(***************************************************************************)
(* Results of forward: a mapping (its keys, and its 'logits' entry), a     *)
(* batch of CAMs, or a raised error.                                       *)
(***************************************************************************)
Dict(keys, logits, attn) ==
    [kind |-> "dict", keys |-> keys, logits |-> logits, cams |-> NoTensor,
     attn_labels |-> attn, error |-> ""]

Cams(t, attn) ==
    [kind |-> "cams", keys |-> {}, logits |-> NoTensor, cams |-> t,
     attn_labels |-> attn, error |-> ""]

Raise(e) ==
    [kind |-> "error", keys |-> {}, logits |-> NoTensor, cams |-> NoTensor,
     attn_labels |-> <<>>, error |-> e]

NoResult ==
    [kind |-> "none", keys |-> {}, logits |-> NoTensor, cams |-> NoTensor,
     attn_labels |-> <<>>, error |-> ""]

\* avgpool to (1, 1), reshaped to (B, C): the mean over the pixels.
AvgPool(x) ==
    TMean(View(x, <<x.shape[1], x.shape[2], x.shape[3] * x.shape[4]>>), 2)

\* nn.Linear: p @ weight^T + bias.
Linear(p, weight, bias) ==
    LET b == p.shape[1]
        m == p.shape[2]
        c == weight.shape[1]
    IN  Tensor(<<b, c>>,
               [i \in 1..(b * c) |->
                    LET row == (i - 1) \div c
                        col == (i - 1) % c
                    IN  RAdd(RSum([k \in 1..m |-> RMul(p.data[row * m + k],
                                                       weight.data[col * m + k])], m),
                             bias.data[col + 1])])

(***************************************************************************)
(* ResNetCam.forward, from the final feature map x on.                     *)
(***************************************************************************)
\* The multi-class CAM with every sample weighted by the first sample's label.
ResNetCam_multi_class_cams_first_label(fc_weight, x, labels) ==
    LET feature_map == x
    IN  IF labels.given /\ ~IndexRowsOk(fc_weight, labels.val)
        THEN Raise("IndexError")
        ELSE LET cam_weights ==
                     IF labels.given
                     THEN IndexRows(fc_weight, [i \in 1..Len(labels.val) |-> labels.val[1]])
                     ELSE Unsqueeze0(fc_weight)
                 shape == <<feature_map.shape[1], feature_map.shape[2], 1, 1>>
             IN  IF ~ViewOk(cam_weights, shape) THEN Raise("RuntimeError: view")
                 ELSE Cams(TMean(TMul(View(cam_weights, shape), feature_map), 1), <<>>)

ResNetCam_multi_class_cams(fc_weight, x, labels) ==
    LET feature_map == x
    IN  IF labels.given /\ ~IndexRowsOk(fc_weight, labels.val)
        THEN Raise("IndexError")
        ELSE LET cam_weights == IF labels.given THEN IndexRows(fc_weight, labels.val)
                                ELSE Unsqueeze0(fc_weight)
                 shape == <<feature_map.shape[1], feature_map.shape[2], 1, 1>>
             IN  IF ~ViewOk(cam_weights, shape) THEN Raise("RuntimeError: view")
                 ELSE Cams(TMean(TMul(View(cam_weights, shape), feature_map), 1), <<>>)

\* The multi-label CAM without the identity mask: every class row of a sample
\* gets the sum of the weight rows of the sample's active classes.
ResNetCam_multi_label_cams_no_eye(fc_weight, x, labels) ==
    IF ~labels.given THEN Raise("AttributeError")
    ELSE
    LET b == labels.val.shape[1]
        c == labels.val.shape[2]
        feature_map == x
        label_masks == RepeatInterleave0(labels.val, c)
        masks3 == View(label_masks, <<b, (b * c * c) \div (b * c), c>>)
    IN  IF ~MatMulOk(masks3, fc_weight) THEN Raise("RuntimeError: matmul")
        ELSE LET cam_weights == MatMul(masks3, fc_weight)
                 wshape == <<c, b, Numel(cam_weights.shape) \div (c * b), 1, 1>>
             IN  IF ~BroadcastOk(wshape, feature_map.shape)
                 THEN Raise("RuntimeError: broadcast")
                 ELSE LET m == TMean(TMul(View(cam_weights, wshape), feature_map), 2)
                          oshape == <<b, c, feature_map.shape[3], feature_map.shape[4]>>
                      IN  IF ~ViewOk(m, oshape) THEN Raise("RuntimeError: view")
                          ELSE Cams(View(m, oshape), <<>>)

ResNetCam_multi_label_cams(fc_weight, x, labels) ==
    IF ~labels.given THEN Raise("AttributeError")
    ELSE
    LET b == labels.val.shape[1]
        c == labels.val.shape[2]
        feature_map == x
        label_masks == TMul(RepeatInterleave0(labels.val, c), EyeRepeat(c, b))
        masks3 == View(label_masks, <<b, (b * c * c) \div (b * c), c>>)
    IN  IF ~MatMulOk(masks3, fc_weight) THEN Raise("RuntimeError: matmul")
        ELSE LET cam_weights == MatMul(masks3, fc_weight)
                 wshape == <<c, b, Numel(cam_weights.shape) \div (c * b), 1, 1>>
             IN  IF ~BroadcastOk(wshape, feature_map.shape)
                 THEN Raise("RuntimeError: broadcast")
                 ELSE LET m == TMean(TMul(View(cam_weights, wshape), feature_map), 2)
                          oshape == <<b, c, feature_map.shape[3], feature_map.shape[4]>>
                      IN  IF ~ViewOk(m, oshape) THEN Raise("RuntimeError: view")
                          ELSE Cams(View(m, oshape), <<>>)

ResNetCam_forward(n, x, labels, return_cam) ==
    LET logits == Linear(AvgPool(x), n.fc_weight, n.fc_bias)
    IN  IF return_cam
        THEN IF n.classif_type = "multi_class"
             THEN ResNetCam_multi_class_cams(n.fc_weight, x, labels)
             ELSE ResNetCam_multi_label_cams(n.fc_weight, x, labels)
        ELSE Dict({"logits"}, logits, <<>>)

(***************************************************************************)
(* ResNetAdl.forward, from the final feature map x on.  The ADL layers are *)
(* part of the backbone that produced x.                                   *)
(***************************************************************************)
\* The ADL CAM averaged over the wrong dimension (the batch, not the channels).
ResNetAdl_cams_mean_dim0(fc_weight, x, labels) ==
    LET feature_map == x
    IN  IF labels.given /\ ~IndexRowsOk(fc_weight, labels.val)
        THEN Raise("IndexError")
        ELSE LET cam_weights == IF labels.given THEN IndexRows(fc_weight, labels.val)
                                ELSE Unsqueeze0(fc_weight)
                 shape == <<feature_map.shape[1], feature_map.shape[2], 1, 1>>
             IN  IF ~ViewOk(cam_weights, shape) THEN Raise("RuntimeError: view")
                 ELSE Cams(TMean(TMul(View(cam_weights, shape), feature_map), 0), <<>>)

ResNetAdl_cams(fc_weight, x, labels) ==
    LET feature_map == x
    IN  IF labels.given /\ ~IndexRowsOk(fc_weight, labels.val)
        THEN Raise("IndexError")
        ELSE LET cam_weights == IF labels.given THEN IndexRows(fc_weight, labels.val)
                                ELSE Unsqueeze0(fc_weight)
                 shape == <<feature_map.shape[1], feature_map.shape[2], 1, 1>>
             IN  IF ~ViewOk(cam_weights, shape) THEN Raise("RuntimeError: view")
                 ELSE Cams(TMean(TMul(View(cam_weights, shape), feature_map), 1), <<>>)

ResNetAdl_forward(n, x, labels, return_cam) ==
    LET logits == Linear(AvgPool(x), n.fc_weight, n.fc_bias)
    IN  IF return_cam THEN ResNetAdl_cams(n.fc_weight, x, labels)
        ELSE Dict({"logits"}, logits, <<>>)

(***************************************************************************)
(* ResNetSpg.forward, from feat_map = SPG_A4(x) on.                        *)
(***************************************************************************)
\* logits.argmax(dim=1) of a (B, C) tensor: the first index of the row's maximum.
ArgMax1(t) ==
    LET c == t.shape[2]
        at(b, j) == t.data[(b - 1) * c + j + 1]
    IN  [b \in 1..t.shape[1] |->
            CHOOSE j \in 0..(c - 1) :
                /\ \A k \in 0..(c - 1) : ~RLess(at(b, j), at(b, k))
                /\ \A k \in 0..(j - 1) : RLess(at(b, k), at(b, j))]

\* spg.compute_attention: the attention mask is taken from each sample's
\* main-branch response at its label, feat_map[range(B), labels]; only the
\* labels it is handed and whether that selection exists are modelled.
compute_attention_ok(feat_map, labels) == PairIndexOk(feat_map, feat_map.shape[1], labels)

SpgKeys == {"attention", "fused_attention", "logits", "logits_b1", "logits_b2", "logits_c"}

\* SPG forward with the CAM channel always chosen by the argmax of the pooled
\* map, supplied labels or not.
ResNetSpg_forward_argmax_cam(feat_map, labels0, return_cam) ==
    LET batch_size == feat_map.shape[1]
        logits == AvgPool(feat_map)
        labels == IF ~labels0.given THEN ArgMax1(logits) ELSE labels0.val
    IN  IF ~compute_attention_ok(feat_map, labels) THEN Raise("IndexError")
        ELSE IF return_cam
             THEN LET feature_map == feat_map
                  IN  Cams(PairIndex(feature_map, batch_size, ArgMax1(logits)), labels)
             ELSE Dict(SpgKeys, logits, labels)

ResNetSpg_forward(feat_map, labels0, return_cam) ==
    LET batch_size == feat_map.shape[1]
        logits == AvgPool(feat_map)
        labels == IF ~labels0.given THEN ArgMax1(logits) ELSE labels0.val
    IN  IF ~compute_attention_ok(feat_map, labels) THEN Raise("IndexError")
        ELSE IF return_cam
             THEN LET feature_map == feat_map
                  IN  IF ~PairIndexOk(feature_map, batch_size, labels)
                      THEN Raise("IndexError")
                      ELSE Cams(PairIndex(feature_map, batch_size, labels), labels)
             ELSE Dict(SpgKeys, logits, labels)

(***************************************************************************)
(* ResNetAcol.forward, from the two branch maps on.                        *)
(***************************************************************************)
\* methods.util.normalize_tensor: min-max scaling of each sample over all of
\* its channels and pixels.
normalize_tensor(t) ==
    LET per == Numel(t.shape) \div t.shape[1]
        RECURSIVE lo(_, _)
        lo(b, n) == IF n = 1 THEN t.data[b * per + 1]
                    ELSE RMin(lo(b, n - 1), t.data[b * per + n])
        RECURSIVE hi(_, _)
        hi(b, n) == IF n = 1 THEN t.data[b * per + 1]
                    ELSE RMax(hi(b, n - 1), t.data[b * per + n])
        mins == [b \in 1..t.shape[1] |-> lo(b - 1, per)]
        maxs == [b \in 1..t.shape[1] |-> hi(b - 1, per)]
    IN  Tensor(t.shape,
               [i \in 1..Numel(t.shape) |->
                    LET b == ((i - 1) \div per) + 1
                    IN  RDiv(RSub(t.data[i], mins[b]), RSub(maxs[b], mins[b]))])

\* AcolBase._acol_logits: the mapping it returns, or the error it raises when
\* the labels do not select each sample's own response in branch A.  Whether it
\* accepts labels=None (defaulting the label itself) is not fixed: defaults.
AcolKeys == {"logits", "feat_map_a", "feat_map_b"}

acol_logits_ok(feat_map_a, labels, defaults) ==
    IF labels.given THEN PairIndexOk(feat_map_a, feat_map_a.shape[1], labels.val)
    ELSE defaults

\* feature_map[range(batch_size), None]: the rows, with a new dimension.
PairIndexNone(t, n) ==
    Tensor(<<n, 1>> \o Tail(t.shape),
           [i \in 1..(n * (Numel(t.shape) \div t.shape[1])) |-> t.data[i]])

\* ACoL CAM with the two branch maps normalized together, after the maximum.
ResNetAcol_cams_joint_norm(feat_map_a, feat_map_b, labels, batch_size) ==
    LET feature_map == normalize_tensor(TMax(feat_map_a, feat_map_b))
    IN  IF ~labels.given THEN Cams(PairIndexNone(feature_map, batch_size), <<>>)
        ELSE IF ~PairIndexOk(feature_map, batch_size, labels.val)
             THEN Raise("IndexError")
             ELSE Cams(PairIndex(feature_map, batch_size, labels.val), labels.val)

ResNetAcol_cams(feat_map_a, feat_map_b, labels, batch_size) ==
    LET normalized_a == normalize_tensor(feat_map_a)
        normalized_b == normalize_tensor(feat_map_b)
        feature_map == TMax(normalized_a, normalized_b)
    IN  IF ~labels.given THEN Cams(PairIndexNone(feature_map, batch_size), <<>>)
        ELSE IF ~PairIndexOk(feature_map, batch_size, labels.val)
             THEN Raise("IndexError")
             ELSE Cams(PairIndex(feature_map, batch_size, labels.val), labels.val)

ResNetAcol_forward(feat_map_a, feat_map_b, labels, return_cam, defaults) ==
    LET batch_size == feat_map_a.shape[1]
    IN  IF ~acol_logits_ok(feat_map_a, labels, defaults) THEN Raise("IndexError")
        ELSE IF return_cam
             THEN ResNetAcol_cams(feat_map_a, feat_map_b, labels, batch_size)
             ELSE Dict(AcolKeys, AvgPool(feat_map_a),
                       IF labels.given THEN labels.val ELSE <<>>)

(***************************************************************************)
(* The calls.                                                              *)
(***************************************************************************)
FeatShape(b) == <<b, NumChannels, FeatH, FeatW>>

ScoreShape(b) == <<b, NumClasses, FeatH, FeatW>>

FcNet(h, ct, seed) ==
    [head |-> h, classif_type |-> ct,
     fc_weight |-> FillSigned(seed, <<NumClasses, NumChannels>>),
     fc_bias |-> FillSigned(seed + 1, <<NumClasses>>)]

ConvNet(h) ==
    [head |-> h, classif_type |-> "multi_class", fc_weight |-> NoTensor,
     fc_bias |-> NoTensor]

NoNet == ConvNet("none")

NoArgs ==
    [x |-> NoTensor, x_b |-> NoTensor, labels |-> NoLabels, return_cam |-> FALSE,
     defaults |-> FALSE]

Args(x, x_b, l, rc, df) ==
    [x |-> x, x_b |-> x_b, labels |-> l, return_cam |-> rc, defaults |-> df]

ClassLabels == {NoLabels} \cup {Labels(v) : v \in ClassIndexVectors}

\* A client calls forward on one of the heads: the head with its parameters,
\* and the arguments.
CallCamMultiClass ==
    /\ pc = "idle"
    /\ \E b \in Batches, seed \in Seeds, rc \in BOOLEAN, l \in ClassLabels :
          /\ net' = FcNet("cam", "multi_class", seed)
          /\ args' = Args(FillNonNeg(seed, FeatShape(b)), NoTensor, l, rc, FALSE)
    /\ pc' = "called"
    /\ UNCHANGED <<ret, remapVars, facVars>>

CallCamMultiLabel ==
    /\ pc = "idle"
    /\ \E b \in Batches, seed \in Seeds, rc \in BOOLEAN, given \in BOOLEAN :
          \E f \in [1..(b * NumClasses) -> {0, 1}] :
              /\ ~given => \A i \in DOMAIN f : f[i] = 0
              /\ net' = FcNet("cam", "multi_label", seed)
              /\ args' = Args(FillNonNeg(seed, FeatShape(b)), NoTensor,
                              IF given THEN Labels(MultiHot(b, f)) ELSE NoLabels,
                              rc, FALSE)
    /\ pc' = "called"
    /\ UNCHANGED <<ret, remapVars, facVars>>

CallAdl ==
    /\ pc = "idle"
    /\ \E b \in Batches, seed \in Seeds, rc \in BOOLEAN, l \in ClassLabels :
          /\ net' = FcNet("adl", "multi_class", seed)
          /\ args' = Args(FillNonNeg(seed, FeatShape(b)), NoTensor, l, rc, FALSE)
    /\ pc' = "called"
    /\ UNCHANGED <<ret, remapVars, facVars>>

CallSpg ==
    /\ pc = "idle"
    /\ \E b \in Batches, seed \in Seeds, rc \in BOOLEAN, l \in ClassLabels :
          /\ net' = ConvNet("spg")
          /\ args' = Args(FillSigned(seed, ScoreShape(b)), NoTensor, l, rc, FALSE)
    /\ pc' = "called"
    /\ UNCHANGED <<ret, remapVars, facVars>>

CallAcol ==
    /\ pc = "idle"
    /\ \E b \in Batches, seed \in Seeds, rc \in BOOLEAN, l \in ClassLabels,
          df \in BOOLEAN :
          /\ l.given => ~df
          /\ net' = ConvNet("acol")
          /\ args' = Args(FillSigned(seed, ScoreShape(b)),
                          FillSigned(seed + 1, ScoreShape(b)), l, rc, df)
    /\ pc' = "called"
    /\ UNCHANGED <<ret, remapVars, facVars>>

ForwardCam ==
    /\ pc = "called"
    /\ net.head = "cam"
    /\ ret' = ResNetCam_forward(net, args.x, args.labels, args.return_cam)
    /\ pc' = "done"
    /\ UNCHANGED <<net, args, remapVars, facVars>>

ForwardAdl ==
    /\ pc = "called"
    /\ net.head = "adl"
    /\ ret' = ResNetAdl_forward(net, args.x, args.labels, args.return_cam)
    /\ pc' = "done"
    /\ UNCHANGED <<net, args, remapVars, facVars>>

ForwardSpg ==
    /\ pc = "called"
    /\ net.head = "spg"
    /\ ret' = ResNetSpg_forward(args.x, args.labels, args.return_cam)
    /\ pc' = "done"
    /\ UNCHANGED <<net, args, remapVars, facVars>>

ForwardAcol ==
    /\ pc = "called"
    /\ net.head = "acol"
    /\ ret' = ResNetAcol_forward(args.x, args.x_b, args.labels, args.return_cam,
                                 args.defaults)
    /\ pc' = "done"
    /\ UNCHANGED <<net, args, remapVars, facVars>>

\* The result is handed to the caller; nothing of the call is kept.
Return ==
    /\ pc = "done"
    /\ pc' = "idle"
    /\ net' = NoNet
    /\ args' = NoArgs
    /\ ret' = NoResult
    /\ UNCHANGED <<remapVars, facVars>>

\* No factory call is in progress.
NoCall ==
    [architecture |-> "", wsol_method |-> "", pretrained |-> FALSE,
     pretrained_path |-> "None", dataset_name |-> "absent", head_kwargs |-> FALSE,
     num_classes |-> 0]

NotBuilt == [kind |-> "none", model |-> "None", error |-> "", events |-> <<>>, strict |-> TRUE]

Init ==
    /\ pc = "idle"
    /\ net = NoNet
    /\ args = NoArgs
    /\ ret = NoResult
    /\ ckpt = <<>>
    /\ state_dict = <<>>
    /\ to_visit = <<>>
    /\ factory = NoCall
    /\ built = NotBuilt

NextForward ==
    \/ CallCamMultiClass
    \/ CallCamMultiLabel
    \/ CallAdl
    \/ CallSpg
    \/ CallAcol
    \/ ForwardCam
    \/ ForwardAdl
    \/ ForwardSpg
    \/ ForwardAcol
    \/ Return

SpecForward == Init /\ [][NextForward]_vars

(***************************************************************************)
(* Checkpoint keys.  A key is a string, held as the sequence of its        *)
(* characters; a state dict maps keys to tensors, and a tensor is named by *)
(* the key it had in the checkpoint as it was handed in.                   *)
(***************************************************************************)
CharCode ==
    [c \in {".", "0", "1", "2", "3", "4", "5", "6", "7", "8", "9", "A", "B", "G", "P",
            "S", "_", "a", "b", "c", "d", "e", "f", "g", "h", "i", "l", "m", "n", "o",
            "p", "r", "s", "t", "u", "v", "w", "y"} |->
        CASE c = "." -> 46
          [] c = "0" -> 48 [] c = "1" -> 49 [] c = "2" -> 50 [] c = "3" -> 51
          [] c = "4" -> 52 [] c = "5" -> 53 [] c = "6" -> 54 [] c = "7" -> 55
          [] c = "8" -> 56 [] c = "9" -> 57
          [] c = "A" -> 65 [] c = "B" -> 66 [] c = "G" -> 71 [] c = "P" -> 80 [] c = "S" -> 83
          [] c = "_" -> 95
          [] c = "a" -> 97 [] c = "b" -> 98 [] c = "c" -> 99 [] c = "d" -> 100 [] c = "e" -> 101
          [] c = "f" -> 102 [] c = "g" -> 103 [] c = "h" -> 104 [] c = "i" -> 105
          [] c = "l" -> 108 [] c = "m" -> 109 [] c = "n" -> 110 [] c = "o" -> 111
          [] c = "p" -> 112 [] c = "r" -> 114
          [] c = "s" -> 115 [] c = "t" -> 116 [] c = "u" -> 117 [] c = "v" -> 118 [] c = "w" -> 119
          [] c = "y" -> 121]

DigitChars == <<"0", "1", "2", "3", "4", "5", "6", "7", "8", "9">>

\* The order of str: by the first character that differs, a prefix first.
RECURSIVE LexLess(_, _)
LexLess(a, b) ==
    IF a = <<>> THEN b # <<>>
    ELSE IF b = <<>> THEN FALSE
    ELSE IF Head(a) = Head(b) THEN LexLess(Tail(a), Tail(b))
    ELSE CharCode[Head(a)] < CharCode[Head(b)]

\* sorted(S) for a set of strings: every string goes to the place given by
\* the number of strings before it.
PlaceByRank(ranked) ==
    [i \in 1..Cardinality(ranked) |-> (CHOOSE p \in ranked : p[1] = i)[2]]

Sorted(S) == PlaceByRank({<<Cardinality({y \in S : LexLess(y, x)}) + 1, x>> : x \in S})

Reversed(q) == [i \in 1..Len(q) |-> q[Len(q) + 1 - i]]

\* kw in key
Contains(key, kw) ==
    \E i \in 1..(Len(key) - Len(kw) + 1) : SubSeq(key, i, i + Len(kw) - 1) = kw

\* key.split('.')
RECURSIVE Split(_)
Split(key) ==
    IF \A i \in 1..Len(key) : key[i] # "." THEN <<key>>
    ELSE LET i == CHOOSE j \in 1..Len(key) :
                      key[j] = "." /\ \A k \in 1..(j - 1) : key[k] # "."
         IN  <<SubSeq(key, 1, i - 1)>> \o Split(SubSeq(key, i + 1, Len(key)))

\* '.'.join(parts)
RECURSIVE Join(_)
Join(parts) ==
    IF Len(parts) = 1 THEN parts[1]
    ELSE parts[1] \o <<".">> \o Join(Tail(parts))

\* int(s) for a string of decimal digits
RECURSIVE ParseInt(_)
ParseInt(str) ==
    IF str = <<>> THEN 0
    ELSE 10 * ParseInt(SubSeq(str, 1, Len(str) - 1))
             + (CharCode[str[Len(str)]] - CharCode["0"])

\* str(n) for n >= 0
RECURSIVE Str(_)
Str(n) == IF n < 10 THEN <<DigitChars[n + 1]>>
          ELSE Str(n \div 10) \o <<DigitChars[(n % 10) + 1]>>

\* key.replace(old, new): every occurrence, left to right
RECURSIVE Replace(_, _, _)
Replace(key, old, new) ==
    IF Len(key) < Len(old) THEN key
    ELSE IF SubSeq(key, 1, Len(old)) = old
         THEN new \o Replace(SubSeq(key, Len(old) + 1, Len(key)), old, new)
         ELSE <<Head(key)>> \o Replace(Tail(key), old, new)

\* state_dict[new_key] = state_dict.pop(key)
Rename(sd, key, new_key) ==
    (new_key :> sd[key]) @@ [k \in DOMAIN sd \ {key, new_key} |-> sd[k]]

(***************************************************************************)
(* The layers and the checkpoints.                                         *)
(***************************************************************************)
ADL_POSITION == <<<<>>, <<>>, <<>>, <<0>>, <<0, 2>>>>

\* list.insert(i, x), positions counted from 0
ListInsert(l, i, x) ==
    LET n == IF i > Len(l) THEN Len(l) ELSE i
    IN  SubSeq(l, 1, n) \o <<x>> \o SubSeq(l, n + 1, Len(l))

\* _layer: the residual blocks 0..blocks-1 (a block is named by its index).
Layer(blocks) == [i \in 1..blocks |-> i - 1]

\* An ADL module in a list of layers.
AdlModule == 0 - 1

\* ResNetAdl._make_layer: the blocks with an ADL module inserted after each
\* position of split, last position first.
RECURSIVE InsertAdl(_, _, _)
InsertAdl(layers, split, n) ==
    IF n = 0 THEN layers
    ELSE InsertAdl(ListInsert(layers, split[n] + 1, AdlModule), split, n - 1)

ResNetAdl_make_layer(blocks, split) == InsertAdl(Layer(blocks), split, Len(split))

\* ResNetSpg._make_layer: the first block and the others, as the two
\* Sequentials of split=True, or as one.
ResNetSpg_make_layer(blocks, split) ==
    LET first_layers == <<0>>
        other_layers == [i \in 1..(blocks - 1) |-> i]
    IN  IF split THEN <<first_layers, other_layers>>
        ELSE <<first_layers \o other_layers>>

\* The blocks per stage of the resnet50 factory.
Resnet50Layers == <<3, 4, 6, 3>>

Str_layer == <<"l", "a", "y", "e", "r">>

Str_conv1_weight == <<"c", "o", "n", "v", "1", ".", "w", "e", "i", "g", "h", "t">>

Str_bn1_bias == <<"b", "n", "1", ".", "b", "i", "a", "s">>

Str_fc_weight == <<"f", "c", ".", "w", "e", "i", "g", "h", "t">>

Str_fc_bias == <<"f", "c", ".", "b", "i", "a", "s">>

Str_downsample_0_weight ==
    <<"d", "o", "w", "n", "s", "a", "m", "p", "l", "e", ".", "0", ".",
      "w", "e", "i", "g", "h", "t">>

Str_SPG_A1 == <<"S", "P", "G", "_", "A", "1">>

Str_SPG_A2 == <<"S", "P", "G", "_", "A", "2">>

\* 'layer<L>.<k>.<rest>'
LayerKey(L, k, rest) == Str_layer \o Str(L) \o <<".">> \o Str(k) \o <<".">> \o rest

\* '<name>.<k>.<rest>'
ModuleKey(name, k, rest) == name \o <<".">> \o Str(k) \o <<".">> \o rest

\* 'layer<L>.<k>.'
LayerPrefix(L, k) == Str_layer \o Str(L) \o <<".">> \o Str(k) \o <<".">>

\* '<name>.<k>.'
ModulePrefix(name, k) == name \o <<".">> \o Str(k) \o <<".">>

\* The parameter names of a residual block: block 0 of a stage carries the
\* downsampling path as well.
BlockParams(k, rests) == IF k = 0 THEN rests \cup {Str_downsample_0_weight} ELSE rests

StemKeys == {Str_conv1_weight, Str_bn1_bias}

FcKeys == {Str_fc_weight, Str_fc_bias}

\* The keys of the canonical backbone with the given number of residual blocks
\* per stage.
BackboneKeys(layers, rests) ==
    StemKeys \cup FcKeys \cup
    UNION {UNION {{LayerKey(L, k, r) : r \in BlockParams(k, rests)} :
                     k \in 0..(layers[L] - 1)} : L \in 1..4}

\* A state dict as it is read from a checkpoint: every tensor is named by the
\* key it is stored under.
Checkpoint(ks) == [k \in ks |-> k]

RestSets == {{Str_conv1_weight}, {Str_conv1_weight, Str_bn1_bias}}

Layouts == {Resnet50Layers} \cup {<<1, 1, n, n>> : n \in 1..MaxBlocks}

(***************************************************************************)
(* The remap of checkpoint keys.                                           *)
(***************************************************************************)
\* (a variant that counts every configured position, before the block or not)
AlignMove_every_position(positions, block_idx) == Len(positions)

\* (a variant that also counts the block's own position)
AlignMove_inclusive(positions, block_idx) ==
    Cardinality({p \in 1..Len(positions) : positions[p] <= block_idx})

\* move: the number of configured ADL positions before the block
AlignMove(positions, block_idx) ==
    Cardinality({p \in 1..Len(positions) : positions[p] < block_idx})

AlignLayerIdx(key) == LET first == Split(key)[1] IN CharCode[first[Len(first)]] - CharCode["0"]

\* new_key of a key that is moved
AlignNewKey(key) ==
    LET key_sp    == Split(key)
        block_idx == ParseInt(key_sp[2])
        move      == AlignMove(ADL_POSITION[AlignLayerIdx(key) + 1], block_idx)
    IN  Join([key_sp EXCEPT ![2] = Str(block_idx + move)])

\* One pass of the loop of align_layer.
AlignVisit(sd, key) ==
    IF ~Contains(key, Str_layer) THEN sd
    ELSE IF ADL_POSITION[AlignLayerIdx(key) + 1] = <<>> THEN sd
    ELSE Rename(sd, key, AlignNewKey(key))

\* replace_layer: every entry whose key contains keyword1 is stored again
\* under the key with keyword1 replaced by keyword2.
ReplacedKey(key, keyword1, keyword2) ==
    IF Contains(key, keyword1) THEN Replace(key, keyword1, keyword2) ELSE key

replace_layer(sd, keyword1, keyword2) ==
    LET moved == {<<key, ReplacedKey(key, keyword1, keyword2)>> : key \in DOMAIN sd}
    IN  [new_key \in {m[2] : m \in moved} |->
            sd[(CHOOSE m \in moved : m[2] = new_key)[1]]]

\* (a variant that keeps the block's own index in SPG_A2)
BatchReplaceTable_own_index ==
    <<<<LayerPrefix(3, 0), ModulePrefix(Str_SPG_A1, 0)>>,
      <<LayerPrefix(3, 1), ModulePrefix(Str_SPG_A2, 1)>>,
      <<LayerPrefix(3, 2), ModulePrefix(Str_SPG_A2, 2)>>,
      <<LayerPrefix(3, 3), ModulePrefix(Str_SPG_A2, 3)>>,
      <<LayerPrefix(3, 4), ModulePrefix(Str_SPG_A2, 4)>>,
      <<LayerPrefix(3, 5), ModulePrefix(Str_SPG_A2, 5)>>>>

BatchReplaceTable ==
    <<<<LayerPrefix(3, 0), ModulePrefix(Str_SPG_A1, 0)>>,
      <<LayerPrefix(3, 1), ModulePrefix(Str_SPG_A2, 0)>>,
      <<LayerPrefix(3, 2), ModulePrefix(Str_SPG_A2, 1)>>,
      <<LayerPrefix(3, 3), ModulePrefix(Str_SPG_A2, 2)>>,
      <<LayerPrefix(3, 4), ModulePrefix(Str_SPG_A2, 3)>>,
      <<LayerPrefix(3, 5), ModulePrefix(Str_SPG_A2, 4)>>>>

RECURSIVE BatchReplaceLoop(_, _)
BatchReplaceLoop(sd, n) ==
    IF n = 0 THEN sd
    ELSE replace_layer(BatchReplaceLoop(sd, n - 1),
                       BatchReplaceTable[n][1], BatchReplaceTable[n][2])

batch_replace_layer(sd) == BatchReplaceLoop(sd, Len(BatchReplaceTable))

(***************************************************************************)
(* The factories.  A call is followed to its end: the lookup of the class, *)
(* the construction, and load_pretrained when pretrained is set.  What was *)
(* done is recorded in the order it was done.                              *)
(***************************************************************************)
Resnet50Table ==
    [cam |-> "ResNetCam", grad_cam |-> "ResNetGradCam", acol |-> "ResNetAcol",
     spg |-> "ResNetSpg", adl |-> "ResNetAdl"]

Resnet101Table ==
    [grad_cam |-> "ResNet101GradCam", graph_cam |-> "ResNet101GCN",
     addgraph_cam |-> "ResNet101ADDGraphCam"]

Resnext50Table == [grad_cam |-> "ResNext50GradCam", graph_cam |-> "ResNext50GCN"]

\* model_urls
ModelUrls == {"resnet50"}

\* The classes of this file that hold their parameters themselves; the others
\* wrap a network and hand load_state_dict on to it.
BackboneClasses == {"ResNetCam", "ResNetAcol", "ResNetSpg", "ResNetAdl"}

\* The classes of the pretrained ImageNet checkpoint.
PretrainedClasses == 1000

Str_classifier_A_weight ==
    <<"c", "l", "a", "s", "s", "i", "f", "i", "e", "r", "_", "A", ".", "0", ".",
      "w", "e", "i", "g", "h", "t">>

Str_classifier_B_weight ==
    <<"c", "l", "a", "s", "s", "i", "f", "i", "e", "r", "_", "B", ".", "0", ".",
      "w", "e", "i", "g", "h", "t">>

Str_SPG_A4_weight == <<"S", "P", "G", "_", "A", "4", ".", "w", "e", "i", "g", "h", "t">>

Str_SPG_B_1a_weight ==
    <<"S", "P", "G", "_", "B", "_", "1", "a", ".", "0", ".", "w", "e", "i", "g", "h", "t">>

Str_fc == <<"f", "c">>

Rests == {Str_conv1_weight, Str_bn1_bias}

StageKeys(L, positions, rests) ==
    UNION {{LayerKey(L, positions[i], r) : r \in BlockParams(i - 1, rests)} :
               i \in 1..Len(positions)}

\* The position of every residual block in a list of layers.
BlockPositions(layers) ==
    [k \in 1..Cardinality({i \in 1..Len(layers) : layers[i] # AdlModule}) |->
        (CHOOSE i \in 1..Len(layers) : layers[i] = k - 1) - 1]

\* The keys of the state dict of a model of a class, as its constructor
\* names the modules.
StateDictKeys(cls, layers) ==
    CASE cls = "ResNetCam" -> BackboneKeys(layers, Rests)
      [] cls = "ResNetAcol" ->
            (BackboneKeys(layers, Rests) \ FcKeys)
                \cup {Str_classifier_A_weight, Str_classifier_B_weight}
      [] cls = "ResNetAdl" ->
            StemKeys \cup FcKeys \cup
            UNION {StageKeys(L, BlockPositions(
                       ResNetAdl_make_layer(layers[L], ADL_POSITION[L + 1])), Rests) :
                       L \in 1..4}
      [] cls = "ResNetSpg" ->
            LET parts == ResNetSpg_make_layer(layers[3], TRUE)
            IN  StemKeys \cup {Str_SPG_A4_weight, Str_SPG_B_1a_weight} \cup
                UNION {StageKeys(L, Layer(layers[L]), Rests) : L \in {1, 2, 4}} \cup
                {ModuleKey(Str_SPG_A1, 0, r) : r \in BlockParams(0, Rests)} \cup
                {ModuleKey(Str_SPG_A2, i - 1, r) : i \in 1..Len(parts[2]), r \in Rests}

\* remove_layer: the entries whose key contains the keyword are dropped.
remove_layer(sd, keyword) ==
    [k \in {key \in DOMAIN sd : ~Contains(key, keyword)} |-> sd[k]]

\* nn.Module.load_state_dict of a class of this file: a shared entry of another
\* size is an error, and so is, when strict, a missing or an unexpected key.
LoadStateDictOk(cls, layers, num_classes, sd, sd_classes, strict) ==
    LET expected == StateDictKeys(cls, layers)
    IN  /\ (FcKeys \cap expected \cap DOMAIN sd # {}) => num_classes = sd_classes
        /\ strict => DOMAIN sd = expected

Built(kind, model, error, events, strict) ==
    [kind |-> kind, model |-> model, error |-> error, events |-> events, strict |-> strict]

Raised(error, events) == Built("raise", "None", error, events, TRUE)

\* The constructors that read a keyword argument of their own.
ConstructorError(cls, a) ==
    IF cls \in {"ResNetAcol", "ResNetAdl"} /\ ~a.head_kwargs THEN "KeyError" ELSE ""

\* table[wsol_method]
FactoryLookup_default(table, wsol_method) ==
    IF wsol_method \in DOMAIN table THEN table[wsol_method]
    ELSE table[CHOOSE m \in DOMAIN table : TRUE]

FactoryLookup(table, wsol_method) ==
    IF wsol_method \in DOMAIN table THEN table[wsol_method] ELSE "KeyError"

MethodNames ==
    {"cam", "grad_cam", "acol", "spg", "adl", "graph_cam", "addgraph_cam", "CAM", "none"}

PathKinds == {"None", "empty", "canonical", "own"}

DatasetNames == {"ILSVRC", "CUB", "absent"}

ClassCounts == {PretrainedClasses, 200}

FactoryCalls ==
    [architecture : {""}, wsol_method : MethodNames, pretrained : BOOLEAN,
     pretrained_path : PathKinds, dataset_name : DatasetNames, head_kwargs : BOOLEAN,
     num_classes : ClassCounts]

(***************************************************************************)
(* A call of a factory: the lookup of the class and the construction, then *)
(* load_pretrained when pretrained is set: the state dict is read, renamed *)
(* for the method (align_layer is followed key by key), and loaded.        *)
(***************************************************************************)
CallFactory(architecture) ==
    /\ pc = "idle"
    /\ \E a \in FactoryCalls : factory' = [a EXCEPT !.architecture = architecture]
    /\ pc' = architecture
    /\ UNCHANGED <<built, fwdVars, remapVars>>

\* The body of a factory up to the call of load_pretrained.
Factory(table, layers) ==
    LET cls == FactoryLookup(table, factory.wsol_method)
    IN  /\ \/ /\ cls = "KeyError"
              /\ built' = Raised("KeyError", <<>>)
              /\ pc' = "built"
           \/ /\ cls # "KeyError"
              /\ ConstructorError(cls, factory) # ""
              /\ built' = Raised(ConstructorError(cls, factory), <<"construct">>)
              /\ pc' = "built"
           \/ /\ cls # "KeyError"
              /\ ConstructorError(cls, factory) = ""
              /\ built' = Built(IF factory.pretrained THEN "building" ELSE "model",
                                cls, "", <<"construct">>, TRUE)
              /\ pc' = IF factory.pretrained THEN "load_pretrained" ELSE "built"
        /\ UNCHANGED <<factory, fwdVars, remapVars>>

CallResnet50 == CallFactory("resnet50")

CallResnet101 == CallFactory("resnet101")

CallResnext50 == CallFactory("resnext50")

resnet50 == pc = "resnet50" /\ Factory(Resnet50Table, Resnet50Layers)

resnet101 == pc = "resnet101" /\ Factory(Resnet101Table, <<>>)

resnext50 == pc = "resnext50" /\ Factory(Resnext50Table, <<>>)

\* The state dict that load_pretrained reads: the file at the path, or the
\* download of the architecture's URL.
ReadStateDict ==
    IF factory.pretrained_path = "own" /\ built.model \in BackboneClasses
    THEN Checkpoint(StateDictKeys(built.model, Resnet50Layers))
    ELSE Checkpoint(BackboneKeys(Resnet50Layers, Rests))

\* The number of classes of the fc entries of that state dict.
ReadClasses ==
    IF factory.pretrained_path = "own" /\ built.model \in BackboneClasses
    THEN factory.num_classes ELSE PretrainedClasses

LoadPretrained ==
    /\ pc = "load_pretrained"
    /\ LET events == built.events \o <<"load_pretrained">>
       IN  IF factory.pretrained_path \in {"None", "empty"}
                  /\ factory.architecture \notin ModelUrls
           THEN /\ built' = Raised("KeyError", events)
                /\ pc' = "built"
                /\ UNCHANGED remapVars
           ELSE /\ ckpt' = ReadStateDict
                /\ IF factory.wsol_method = "adl"
                   THEN /\ state_dict' = ReadStateDict
                        /\ to_visit' = Reversed(Sorted(DOMAIN ReadStateDict))
                        /\ built' = [built EXCEPT !.events = events \o <<"align_layer">>]
                        /\ pc' = "align_layer"
                   ELSE IF factory.wsol_method = "spg"
                   THEN /\ state_dict' = batch_replace_layer(ReadStateDict)
                        /\ to_visit' = <<>>
                        /\ built' = [built EXCEPT
                                         !.events = events \o <<"batch_replace_layer">>]
                        /\ pc' = "load_state_dict"
                   ELSE /\ state_dict' = ReadStateDict
                        /\ to_visit' = <<>>
                        /\ built' = [built EXCEPT !.events = events]
                        /\ pc' = "load_state_dict"
    /\ UNCHANGED <<factory, fwdVars>>

\* (a variant that does not ask whether a path was given)
RemoveFc_any_path(path, dataset_name, wsol_method) ==
    dataset_name # "ILSVRC" \/ wsol_method \in {"acol", "spg"}

\* The condition under which load_pretrained drops the fc entries and loads
\* with strict=False.
RemoveFc(path, dataset_name, wsol_method) ==
    path = "None" /\ (dataset_name # "ILSVRC" \/ wsol_method \in {"acol", "spg"})

\* The rest of load_pretrained: the decision on the fc entries and on the
\* strictness, and the load.  wrapped_ok is what the wrapped network of a
\* wrapper class answers to load_state_dict.
LoadStateDict ==
    /\ pc = "load_state_dict"
    /\ LET lenient == RemoveFc(factory.pretrained_path, factory.dataset_name,
                                   factory.wsol_method)
           sd      == IF lenient THEN remove_layer(state_dict, Str_fc) ELSE state_dict
           events  == (IF lenient THEN built.events \o <<"remove_layer">> ELSE built.events)
                          \o <<"load_state_dict">>
       IN  IF factory.pretrained_path = "None" /\ factory.dataset_name = "absent"
           THEN /\ built' = Raised("KeyError", built.events)
                /\ UNCHANGED state_dict
           ELSE /\ state_dict' = sd
                /\ \E wrapped_ok \in BOOLEAN :
                       LET ok == IF built.model \in BackboneClasses
                                 THEN LoadStateDictOk(built.model, Resnet50Layers,
                                          factory.num_classes, sd, ReadClasses, ~lenient)
                                 ELSE wrapped_ok
                       IN  built' = IF ok THEN Built("model", built.model, "", events, ~lenient)
                                    ELSE Built("raise", "None", "RuntimeError", events, ~lenient)
    /\ pc' = "built"
    /\ UNCHANGED <<factory, ckpt, to_visit, fwdVars>>

FactoryReturn ==
    /\ pc = "built"
    /\ pc' = "idle"
    /\ factory' = NoCall
    /\ built' = NotBuilt
    /\ ckpt' = <<>>
    /\ state_dict' = <<>>
    /\ to_visit' = <<>>
    /\ UNCHANGED fwdVars

(***************************************************************************)
(* Calls of the remaps on their own.                                       *)
(***************************************************************************)
CallAlignLayer ==
    /\ pc = "idle"
    /\ \E layers \in Layouts, rests \in RestSets :
           /\ ckpt' = Checkpoint(BackboneKeys(layers, rests))
           /\ state_dict' = Checkpoint(BackboneKeys(layers, rests))
           /\ to_visit' = Reversed(Sorted(BackboneKeys(layers, rests)))
    /\ pc' = "align_layer"
    /\ UNCHANGED <<fwdVars, facVars>>

\* One pass of the loop of align_layer.
AlignLayerVisit ==
    /\ pc = "align_layer"
    /\ to_visit # <<>>
    /\ state_dict' = AlignVisit(state_dict, Head(to_visit))
    /\ to_visit' = Tail(to_visit)
    /\ UNCHANGED <<pc, ckpt, fwdVars, facVars>>

\* align_layer returns, to load_pretrained when it was called from there.
AlignLayerReturn ==
    /\ pc = "align_layer"
    /\ to_visit = <<>>
    /\ pc' = IF factory = NoCall THEN "aligned" ELSE "load_state_dict"
    /\ UNCHANGED <<remapVars, fwdVars, facVars>>

CallBatchReplaceLayer ==
    /\ pc = "idle"
    /\ \E layers \in Layouts, rests \in RestSets :
           /\ ckpt' = Checkpoint(BackboneKeys(layers, rests))
           /\ state_dict' = batch_replace_layer(Checkpoint(BackboneKeys(layers, rests)))
    /\ pc' = "replaced"
    /\ UNCHANGED <<to_visit, fwdVars, facVars>>

RemapReturn ==
    /\ pc \in {"aligned", "replaced"}
    /\ pc' = "idle"
    /\ ckpt' = <<>>
    /\ state_dict' = <<>>
    /\ to_visit' = <<>>
    /\ UNCHANGED <<fwdVars, facVars>>

NextRemap ==
    \/ CallAlignLayer
    \/ AlignLayerVisit
    \/ AlignLayerReturn
    \/ CallBatchReplaceLayer
    \/ RemapReturn

SpecRemap == Init /\ [][NextRemap]_vars

NextFactory ==
    \/ CallResnet50
    \/ CallResnet101
    \/ CallResnext50
    \/ resnet50
    \/ resnet101
    \/ resnext50
    \/ LoadPretrained
    \/ AlignLayerVisit
    \/ AlignLayerReturn
    \/ LoadStateDict
    \/ FactoryReturn

SpecFactory == Init /\ [][NextFactory]_vars


(***************************************************************************)
(* Properties of the forward passes.                                       *)
(***************************************************************************)
\* Element access by multi-index, indices counted from 0.
At2(t, i, j) == t.data[i * t.shape[2] + j + 1]

At3(t, i, h, w) == t.data[(i * t.shape[2] + h) * t.shape[3] + w + 1]

At4(t, i, j, h, w) == t.data[((i * t.shape[2] + j) * t.shape[3] + h) * t.shape[4] + w + 1]

AllOnes(t) == \A i \in 1..Len(t.data) : t.data[i] = RInt(1)

\* mean over channels k of W[j][k] * F[i][k][h][w]
ChannelMean(W, F, i, j, h, w) ==
    RDiv(RSum([k \in 1..F.shape[2] |-> RMul(At2(W, j, k - 1), At4(F, i, k - 1, h, w))],
              F.shape[2]),
         RInt(F.shape[2]))

\* mean of weight row W[j]
RowMean(W, j) ==
    RDiv(RSum([k \in 1..W.shape[2] |-> At2(W, j, k - 1)], W.shape[2]), RInt(W.shape[2]))

\* A class index for each sample of the batch, each below num_classes.
WellFormedClassLabels(l, b, c) ==
    /\ l.given
    /\ Len(l.val) = b
    /\ \A i \in 1..Len(l.val) : l.val[i] \in 0..(c - 1)

CamCall(ct) ==
    /\ pc = "done"
    /\ net.head = "cam"
    /\ net.classif_type = ct
    /\ args.return_cam

\* C2: in the multi-label CAM path, for every batch size, sample i and class j,
\* the result has shape (B, num_classes, H, W) and entry [i][j] is
\* labels[i][j] * mean over channels k of W[j][k] * F[i][k][h][w], computed on
\* sample i's own feature map.
C2_MultiLabelOwnSample ==
    (CamCall("multi_label") /\ args.labels.given) =>
        /\ ret.kind = "cams"
        /\ ret.cams.shape = <<args.x.shape[1], NumClasses, args.x.shape[3], args.x.shape[4]>>
        /\ \A i \in 0..(args.x.shape[1] - 1), j \in 0..(NumClasses - 1),
              h \in 0..(args.x.shape[3] - 1), w \in 0..(args.x.shape[4] - 1) :
              At4(ret.cams, i, j, h, w) =
                  RMul(At2(args.labels.val, i, j),
                       ChannelMean(net.fc_weight, args.x, i, j, h, w))

C4_MultiClassCam ==
    (CamCall("multi_class")
         /\ WellFormedClassLabels(args.labels, args.x.shape[1], NumClasses)) =>
        /\ ret.kind = "cams"
        /\ ret.cams.shape = <<args.x.shape[1], args.x.shape[3], args.x.shape[4]>>
        /\ \A b \in 0..(args.x.shape[1] - 1),
              h \in 0..(args.x.shape[3] - 1), w \in 0..(args.x.shape[4] - 1) :
              /\ At3(ret.cams, b, h, w) =
                     ChannelMean(net.fc_weight, args.x, b, args.labels.val[b + 1], h, w)
              /\ AllOnes(args.x) =>
                     At3(ret.cams, b, h, w) = RowMean(net.fc_weight, args.labels.val[b + 1])

\* A multi-class call on a batch of two or more whose samples carry different
\* labels and get different CAMs.
C4_Witness ==
    /\ CamCall("multi_class")
    /\ WellFormedClassLabels(args.labels, args.x.shape[1], NumClasses)
    /\ ret.kind = "cams"
    /\ args.x.shape[1] >= 2
    /\ args.labels.val[1] # args.labels.val[2]
    /\ ~AllOnes(args.x)
    /\ At3(ret.cams, 0, 0, 0) # At3(ret.cams, 1, 0, 0)

\* C8: CAM extraction in ResNetAdl.forward is the function of ResNetCam's
\* multi-class path: on the same feature map, weights and labels both give the
\* same outcome, and for well-formed labels that is the mean over channels of
\* W[labels[b]] * F[b].
C8_AdlCamIsMultiClassCam ==
    (pc = "done" /\ net.head = "adl" /\ args.return_cam) =>
        /\ ret = ResNetCam_multi_class_cams(net.fc_weight, args.x, args.labels)
        /\ WellFormedClassLabels(args.labels, args.x.shape[1], NumClasses) =>
               /\ ret.kind = "cams"
               /\ \A b \in 0..(args.x.shape[1] - 1),
                     h \in 0..(args.x.shape[3] - 1), w \in 0..(args.x.shape[4] - 1) :
                     At3(ret.cams, b, h, w) =
                         ChannelMean(net.fc_weight, args.x, b, args.labels.val[b + 1], h, w)

\* An ADL call on a batch of two or more that returned CAMs, not all zero.
C8_Witness ==
    /\ pc = "done"
    /\ net.head = "adl"
    /\ args.return_cam
    /\ WellFormedClassLabels(args.labels, args.x.shape[1], NumClasses)
    /\ args.x.shape[1] >= 2
    /\ ret.kind = "cams"
    /\ \E i \in 1..Len(ret.cams.data) : ret.cams.data[i] # RInt(0)

\* C5: for every head, forward returns a mapping holding 'logits' when
\* return_cam is false and a batch of CAMs when return_cam is true, whether
\* labels are supplied (a class index per sample, or a multi-hot row per sample)
\* or not.  ResNetAcol is held to this only where AcolBase._acol_logits accepts
\* the call.
LabelsAbsentOrWellFormed ==
    \/ ~args.labels.given
    \/ net.classif_type = "multi_label"
    \/ WellFormedClassLabels(args.labels, args.x.shape[1], NumClasses)

C5_KindByReturnCamOnly ==
    (pc = "done" /\ LabelsAbsentOrWellFormed
         /\ (net.head = "acol" => (args.labels.given \/ args.defaults))) =>
        IF args.return_cam THEN ret.kind = "cams"
        ELSE ret.kind = "dict" /\ "logits" \in ret.keys

\* The mean over the pixels of feat_map[b][j].
PixelMean(F, b, j) ==
    LET hw == F.shape[3] * F.shape[4]
    IN  RDiv(RSum([n \in 1..hw |-> F.data[(b * F.shape[2] + j) * hw + n]], hw), RInt(hw))

\* C6: in ResNetSpg.forward without labels, the label of sample b is the
\* (first) class whose pooled main-branch map is largest; that label is the one
\* handed to the attention computation and the one that selects the CAM channel,
\* cams[b] = feat_map[b][label].  With labels supplied, the supplied labels are
\* handed on unchanged and select the CAM channel.
C6_SpgLabelDefault ==
    (pc = "done" /\ net.head = "spg") =>
        /\ ~args.labels.given =>
               /\ ret.kind = IF args.return_cam THEN "cams" ELSE "dict"
               /\ Len(ret.attn_labels) = args.x.shape[1]
               /\ \A b \in 0..(args.x.shape[1] - 1) :
                      LET j == ret.attn_labels[b + 1]
                      IN  /\ j \in 0..(NumClasses - 1)
                          /\ \A k \in 0..(NumClasses - 1) :
                                 ~RLess(PixelMean(args.x, b, j), PixelMean(args.x, b, k))
                          /\ \A k \in 0..(j - 1) :
                                 RLess(PixelMean(args.x, b, k), PixelMean(args.x, b, j))
                          /\ args.return_cam =>
                                 \A h \in 0..(args.x.shape[3] - 1),
                                    w \in 0..(args.x.shape[4] - 1) :
                                    At3(ret.cams, b, h, w) = At4(args.x, b, j, h, w)
        /\ (args.labels.given /\ ret.kind # "error") =>
               ret.attn_labels = args.labels.val
        /\ WellFormedClassLabels(args.labels, args.x.shape[1], NumClasses) =>
               /\ ret.kind = IF args.return_cam THEN "cams" ELSE "dict"
               /\ args.return_cam =>
                      \A b \in 0..(args.x.shape[1] - 1), h \in 0..(args.x.shape[3] - 1),
                         w \in 0..(args.x.shape[4] - 1) :
                         At3(ret.cams, b, h, w) =
                             At4(args.x, b, args.labels.val[b + 1], h, w)

\* An SPG call without labels on a batch whose samples default to different
\* classes, one of them not class 0.
C6_Witness ==
    /\ pc = "done"
    /\ net.head = "spg"
    /\ ~args.labels.given
    /\ args.return_cam
    /\ ret.kind = "cams"
    /\ args.x.shape[1] >= 2
    /\ ret.attn_labels[1] # ret.attn_labels[2]

\* C7: in ResNetAcol.forward with return_cam and well-formed labels, the result
\* has shape (B, H, W) and each pixel is the larger of the two branch maps'
\* values at the sample's own label, each branch map normalized on its own
\* before the maximum is taken.
C7_AcolMaxOfNormalized ==
    (pc = "done" /\ net.head = "acol" /\ args.return_cam
         /\ WellFormedClassLabels(args.labels, args.x.shape[1], NumClasses)) =>
        /\ ret.kind = "cams"
        /\ ret.cams.shape = <<args.x.shape[1], args.x.shape[3], args.x.shape[4]>>
        /\ LET norm_a == normalize_tensor(args.x)
               norm_b == normalize_tensor(args.x_b)
           IN  \A b \in 0..(args.x.shape[1] - 1), h \in 0..(args.x.shape[3] - 1),
                  w \in 0..(args.x.shape[4] - 1) :
                  At3(ret.cams, b, h, w) =
                      RMax(At4(norm_a, b, args.labels.val[b + 1], h, w),
                           At4(norm_b, b, args.labels.val[b + 1], h, w))

\* An ACoL call on a batch of two or more where branch A gives the larger value
\* at one returned pixel and branch B at another.
C7_Witness ==
    /\ pc = "done"
    /\ net.head = "acol"
    /\ args.return_cam
    /\ WellFormedClassLabels(args.labels, args.x.shape[1], NumClasses)
    /\ ret.kind = "cams"
    /\ args.x.shape[1] >= 2
    /\ \E b \in 0..(args.x.shape[1] - 1), h \in 0..(args.x.shape[3] - 1),
          w \in 0..(args.x.shape[4] - 1) :
          RLess(At4(normalize_tensor(args.x), b, args.labels.val[b + 1], h, w),
                At4(normalize_tensor(args.x_b), b, args.labels.val[b + 1], h, w))
    /\ \E b \in 0..(args.x.shape[1] - 1), h \in 0..(args.x.shape[3] - 1),
          w \in 0..(args.x.shape[4] - 1) :
          RLess(At4(normalize_tensor(args.x_b), b, args.labels.val[b + 1], h, w),
                At4(normalize_tensor(args.x), b, args.labels.val[b + 1], h, w))


(***************************************************************************)
(* The factories and the remaps of checkpoint keys.                        *)
(***************************************************************************)
\* The method names each factory is said to accept.
C1_Accepted(architecture) ==
    CASE architecture = "resnet50" -> {"cam", "grad_cam", "acol", "spg", "adl"}
      [] architecture = "resnet101" -> {"grad_cam", "graph_cam", "addgraph_cam"}
      [] architecture = "resnext50" -> {"grad_cam", "graph_cam"}

\* The body of the factory called has run.
FactoryBodyDone == factory # NoCall /\ pc # factory.architecture

\* C1: a factory rejects every method name outside its own table with a
\* KeyError raised before anything is constructed and before load_pretrained
\* is called, and returns no model; a name of its table passes the lookup and
\* reaches the constructor.  This holds for pretrained set and not set.
C1_FactoriesRejectUnknownMethods ==
    FactoryBodyDone =>
        IF factory.wsol_method \in C1_Accepted(factory.architecture)
        THEN built.events # <<>> /\ built.events[1] = "construct"
        ELSE /\ pc = "built"
             /\ built.kind = "raise"
             /\ built.error = "KeyError"
             /\ built.model = "None"
             /\ built.events = <<>>

\* A name valid for another factory is rejected, with pretrained set.
C1_Witness ==
    /\ pc = "built"
    /\ factory.architecture = "resnet101"
    /\ factory.wsol_method = "cam"
    /\ factory.pretrained
    /\ built.kind = "raise"
    /\ built.events = <<>>

HasPrefix(key, prefix) ==
    Len(key) >= Len(prefix) /\ SubSeq(key, 1, Len(prefix)) = prefix

AfterPrefix(key, prefix) == SubSeq(key, Len(prefix) + 1, Len(key))

\* The state dict handed in is a checkpoint of the canonical backbone with
\* these blocks per stage.
IsCheckpointOf(layers) == \E rests \in RestSets : DOMAIN ckpt = BackboneKeys(layers, rests)

\* The Sequential of stage L of the ADL network of the resnet50 layout.
AdlStage(L) == ResNetAdl_make_layer(Resnet50Layers[L], ADL_POSITION[L + 1])

\* C9: for the resnet50 layout [3,4,6,3], align_layer stores the tensor of
\* every key 'layerL.k.<rest>' under 'layerL.k2.<rest>', where k2 is the
\* position of residual block k in the Sequential that ResNetAdl._make_layer
\* builds with split = _ADL_POSITION[L]; in that Sequential an ADL module
\* directly follows each configured block and the blocks keep their order; no
\* key of the result names a position held by an ADL module, and no entry is
\* lost.
C9_AlignAgreesWithSplice ==
    (pc = "aligned" /\ IsCheckpointOf(Resnet50Layers)) =>
        /\ \A L \in 1..4 : \A k \in 0..(Resnet50Layers[L] - 1) :
               LET k2 == BlockPositions(AdlStage(L))[k + 1]
               IN  /\ \A key \in DOMAIN ckpt :
                          HasPrefix(key, LayerPrefix(L, k)) =>
                              LET new_key == LayerKey(L, k2, AfterPrefix(key, LayerPrefix(L, k)))
                              IN  /\ new_key \in DOMAIN state_dict
                                  /\ state_dict[new_key] = ckpt[key]
                   /\ AdlStage(L)[k2 + 1] = k
                   /\ k > 0 => BlockPositions(AdlStage(L))[k] < k2
        /\ \A L \in 1..4 : \A i \in 1..Len(ADL_POSITION[L + 1]) :
               AdlStage(L)[BlockPositions(AdlStage(L))[ADL_POSITION[L + 1][i] + 1] + 2]
                   = AdlModule
        /\ \A key \in DOMAIN state_dict :
               Contains(key, Str_layer) =>
                   LET position == ParseInt(Split(key)[2])
                       stage    == AdlStage(AlignLayerIdx(key))
                   IN  position < Len(stage) /\ stage[position + 1] # AdlModule
        /\ Cardinality(DOMAIN state_dict) = Cardinality(DOMAIN ckpt)

\* The blocks after an ADL position have moved: block 2 of layer4 is at 3 and
\* block 5 of layer3 at 6.
C9_Witness ==
    /\ pc = "aligned"
    /\ IsCheckpointOf(Resnet50Layers)
    /\ LayerKey(4, 3, Str_conv1_weight) \in DOMAIN state_dict
    /\ state_dict[LayerKey(4, 3, Str_conv1_weight)] = LayerKey(4, 2, Str_conv1_weight)
    /\ LayerKey(3, 6, Str_conv1_weight) \in DOMAIN state_dict
    /\ state_dict[LayerKey(3, 6, Str_conv1_weight)] = LayerKey(3, 5, Str_conv1_weight)

\* layer3 of the state dict handed in has this many blocks.
Layer3Blocks(n) == \E layers \in Layouts : layers[3] = n /\ IsCheckpointOf(layers)

\* The module and the index in it that ResNetSpg gives block k of layer3: the
\* first Sequential of the split is SPG_A1 and the second SPG_A2.
SpgPlace(k, blocks) ==
    LET parts == ResNetSpg_make_layer(blocks, TRUE)
    IN  IF \E i \in 1..Len(parts[1]) : parts[1][i] = k
        THEN <<Str_SPG_A1, (CHOOSE i \in 1..Len(parts[1]) : parts[1][i] = k) - 1>>
        ELSE <<Str_SPG_A2, (CHOOSE i \in 1..Len(parts[2]) : parts[2][i] = k) - 1>>

Str_layer3_dot == <<"l", "a", "y", "e", "r", "3", ".">>

\* C10: for a layer3 of 6 blocks, batch_replace_layer stores the tensor of
\* every key of block 0 under 'SPG_A1.0.' and of block k (1 <= k <= 5) under
\* 'SPG_A2.(k-1).', the places ResNetSpg._make_layer(split=True) gives these
\* blocks; the renaming is one-to-one, no key with prefix 'layer3.' is left,
\* and the entries of every other layer are unchanged.
C10_BatchReplaceAgreesWithSplit ==
    (pc = "replaced" /\ Layer3Blocks(6)) =>
        /\ \A k \in 0..5 : \A key \in DOMAIN ckpt :
               HasPrefix(key, LayerPrefix(3, k)) =>
                   LET place   == SpgPlace(k, 6)
                       new_key == ModuleKey(place[1], place[2],
                                            AfterPrefix(key, LayerPrefix(3, k)))
                   IN  /\ place = IF k = 0 THEN <<Str_SPG_A1, 0>> ELSE <<Str_SPG_A2, k - 1>>
                       /\ new_key \in DOMAIN state_dict
                       /\ state_dict[new_key] = ckpt[key]
        /\ Cardinality(DOMAIN state_dict) = Cardinality(DOMAIN ckpt)
        /\ {state_dict[key] : key \in DOMAIN state_dict} = DOMAIN ckpt
        /\ \A key \in DOMAIN state_dict : ~HasPrefix(key, Str_layer3_dot)
        /\ \A key \in DOMAIN ckpt :
               ~HasPrefix(key, Str_layer3_dot) =>
                   key \in DOMAIN state_dict /\ state_dict[key] = ckpt[key]

\* The resnet50 checkpoint after the renaming: block 5 of layer3 is at
\* SPG_A2.4 and layer4 is where it was.
C10_Witness ==
    /\ pc = "replaced"
    /\ IsCheckpointOf(Resnet50Layers)
    /\ ModuleKey(Str_SPG_A2, 4, Str_conv1_weight) \in DOMAIN state_dict
    /\ state_dict[ModuleKey(Str_SPG_A2, 4, Str_conv1_weight)] = LayerKey(3, 5, Str_conv1_weight)
    /\ ModuleKey(Str_SPG_A1, 0, Str_downsample_0_weight) \in DOMAIN state_dict
    /\ LayerKey(4, 2, Str_conv1_weight) \in DOMAIN state_dict


(***************************************************************************)
(* load_pretrained.                                                        *)
(***************************************************************************)
\* i is a place of the event in the sequence.
EventAt(events, name) == {i \in 1..Len(events) : events[i] = name}

Happened(name) == EventAt(built.events, name) # {}

\* Every occurrence of the first event is before every occurrence of the second.
Before(first, second) ==
    \A i \in EventAt(built.events, first) : \A j \in EventAt(built.events, second) : i < j

\* load_pretrained has come to model.load_state_dict.
LoadReached == pc = "built" /\ Happened("load_state_dict")

\* C11: whenever load_pretrained comes to the load, the load is lenient
\* (strict=False) if and only if remove_layer has dropped the fc entries, and
\* that is exactly when no path was given (path is None) and dataset_name is
\* not 'ILSVRC' or the method is 'acol' or 'spg'; otherwise, and so whenever a
\* path is given, the fc entries read are all still there and the load is
\* strict.  For 'adl' and 'spg' the keys have been renamed before the load, in
\* the strict and in the lenient case.
C11_LenientIffFcRemoved ==
    LoadReached =>
        LET no_path == factory.pretrained_path = "None"
            lenient == no_path /\ (factory.dataset_name # "ILSVRC"
                                       \/ factory.wsol_method \in {"acol", "spg"})
        IN  /\ ~built.strict <=> Happened("remove_layer")
            /\ Happened("remove_layer") <=> lenient
            /\ lenient => \A key \in DOMAIN state_dict : ~Contains(key, Str_fc)
            /\ ~lenient => \A key \in FcKeys : key \in DOMAIN ckpt => key \in DOMAIN state_dict
            /\ Before("remove_layer", "load_state_dict")
            /\ factory.wsol_method = "adl" <=> Happened("align_layer")
            /\ factory.wsol_method = "spg" <=> Happened("batch_replace_layer")
            /\ Before("align_layer", "load_state_dict")
            /\ Before("batch_replace_layer", "load_state_dict")
            /\ (factory.wsol_method = "spg" /\ factory.pretrained_path # "own")
                   => \A key \in DOMAIN state_dict : ~HasPrefix(key, Str_layer3_dot)
            /\ (factory.wsol_method = "adl" /\ factory.pretrained_path # "own")
                   => LayerKey(4, 3, Str_conv1_weight) \in DOMAIN state_dict

\* A lenient load after the ADL rename: no path, a dataset other than ILSVRC.
C11_Witness ==
    /\ LoadReached
    /\ factory.wsol_method = "adl"
    /\ factory.pretrained_path = "None"
    /\ factory.dataset_name = "CUB"
    /\ ~built.strict
    /\ built.kind = "model"


(***************************************************************************)
(* Malformed label vectors.                                                *)
(***************************************************************************)
\* The batch size of the call: the first dimension of the feature map.
CallBatchSize == args.x.shape[1]

\* A label vector of class indices of another length than the batch, or with
\* an index that is no class.
MalformedClassLabels ==
    /\ args.labels.given
    /\ \/ Len(args.labels.val) # CallBatchSize
       \/ \E i \in 1..Len(args.labels.val) : args.labels.val[i] >= NumClasses

\* C12: in every head that indexes by label (ResNetCam multi-class, ResNetAdl,
\* ResNetSpg, ResNetAcol), a forward call with return_cam=True whose label
\* vector has another length than the batch (length 1 with a larger batch
\* included) or holds a class index >= num_classes ends in an error and
\* returns no CAM.
C12_MalformedLabelsRaise ==
    (/\ pc = "done"
     /\ net.head \in {"cam", "adl", "spg", "acol"}
     /\ net.classif_type = "multi_class"
     /\ args.return_cam
     /\ MalformedClassLabels) => ret.kind = "error"


(***************************************************************************)
(* align_layer, key by key.                                                *)
(***************************************************************************)
\* align_layer is running or has returned.
InAlignLayer == pc \in {"align_layer", "aligned"}

\* The keys not yet visited.
Unvisited == {to_visit[i] : i \in 1..Len(to_visit)}

\* C13: align_layer loses no entry, whatever the number of blocks per stage
\* (more than 10 included): at every point of the loop and at the return the
\* dict has as many entries as it was handed, every tensor handed in is held
\* under exactly one key, and every key not yet visited still holds its own
\* tensor, that is, no rename has overwritten it.
C13_AlignLosesNoEntry ==
    InAlignLayer =>
        /\ Cardinality(DOMAIN state_dict) = Cardinality(DOMAIN ckpt)
        /\ \A key \in DOMAIN ckpt :
               Cardinality({k \in DOMAIN state_dict : state_dict[k] = ckpt[key]}) = 1
        /\ \A key \in Unvisited : key \in DOMAIN state_dict /\ state_dict[key] = ckpt[key]


\* The key is outside the ADL stages or before every ADL position of its
\* stage: it does not contain 'layer', or it is of layer1 or layer2, or the
\* index of its block is not greater than any configured position.
OutsideAdl(key) ==
    \/ ~Contains(key, Str_layer)
    \/ \E L \in 1..4, k \in 0..MaxBlocks :
           /\ HasPrefix(key, LayerPrefix(L, k))
           /\ \A i \in 1..Len(ADL_POSITION[L + 1]) : k <= ADL_POSITION[L + 1][i]

\* The two keys differ at most in their second component, the block index.
SameButBlockIndex(key, other) ==
    /\ Len(Split(key)) = Len(Split(other))
    /\ \A i \in 1..Len(Split(key)) : i # 2 => Split(key)[i] = Split(other)[i]

\* C14: align_layer leaves every key outside the ADL stages under the same
\* name with the same tensor: the keys without 'layer' (conv1, bn1, fc), the
\* keys of layer1 and layer2, and the keys of block 0 of layer3 and layer4;
\* this holds at every point of the loop and at the return.  A tensor that is
\* stored under another key differs from its old key in the block index only.
C14_AlignFrame ==
    InAlignLayer =>
        /\ \A key \in DOMAIN ckpt :
               OutsideAdl(key) => key \in DOMAIN state_dict /\ state_dict[key] = ckpt[key]
        /\ \A key \in DOMAIN state_dict : SameButBlockIndex(key, state_dict[key])

\* align_layer has returned on the resnet50 layout: block 2 of layer4 was
\* moved, the downsampling path of block 0 and fc are where they were.
C14_Witness ==
    /\ pc = "aligned"
    /\ IsCheckpointOf(Resnet50Layers)
    /\ state_dict[LayerKey(4, 3, Str_conv1_weight)] = LayerKey(4, 2, Str_conv1_weight)
    /\ state_dict[LayerKey(4, 0, Str_downsample_0_weight)]
           = LayerKey(4, 0, Str_downsample_0_weight)
    /\ state_dict[LayerKey(2, 3, Str_conv1_weight)] = LayerKey(2, 3, Str_conv1_weight)
    /\ state_dict[Str_fc_weight] = Str_fc_weight

====
